---- MODULE Spec2Model ----
(***************************************************************************)
(* The room-based fan-out relay of the socket server (index.js) and the    *)
(* socketEmitter helper module.                                            *)
(*                                                                         *)
(* Node runs every handler to completion on one thread, so each socket     *)
(* event handler and each HTTP handler is one atomic action.  The state    *)
(* is the registry connectedClients, the membership index of the           *)
(* Socket.IO adapter (io.sockets.adapter.rooms) that getRoomSize and       *)
(* io.to(room) read, and the emitter module's io handle.  The calls into   *)
(* Socket.IO are modelled by what they do to that index: socket.join adds  *)
(* the socket to a room and creates the room when needed, socket.leave     *)
(* removes it and drops the room when it becomes empty, a new socket is    *)
(* put in the room named by its own id before the connection handler       *)
(* runs, and a closing socket is taken out of all its rooms before its     *)
(* disconnect handler runs.  Session recovery after a dropped transport    *)
(* is not modelled: a socket id is live once.  An exception thrown out of  *)
(* a socket event listener is caught by nobody (Socket.IO calls the        *)
(* listeners from process.nextTick and index.js installs no                *)
(* uncaughtException handler): node ends the process, which the model      *)
(* shows as every socket "down" and an empty registry and index.           *)
(*                                                                         *)
(* out is the observable effect of the handler that ran last: the events   *)
(* it wrote to each socket, the HTTP response, the value returned.         *)
(* lastJoined is a history variable: for each connection, the channel      *)
(* names whose most recent joinRoom / register / leaveRoom event from      *)
(* that connection was a join.  roomsAtClose is a history variable too:    *)
(* the rooms a closed connection was in when its transport closed.  prev   *)
(* is the out of the handler before the last one; it is kept only when     *)
(* keepPrev is set, under the specifications that look at two handlers in  *)
(* a row.                                                                  *)
(***************************************************************************)
EXTENDS Integers, Sequences, FiniteSets, TLC

VARIABLES socketState, rooms, connectedClients, emitterIo, lastJoined,
          roomsAtClose, out, prev, keepPrev

vars ==
    <<socketState, rooms, connectedClients, emitterIo, lastJoined, roomsAtClose,
      out, prev, keepPrev>>

(***************************************************************************)
(* Bounds.                                                                 *)
(***************************************************************************)
MaxSockets == 2

\* socket.id of the i-th connection the transport accepts
SocketId(i) == "sock" \o ToString(i)

Sids == {SocketId(i) : i \in 1..MaxSockets}

(***************************************************************************)
(* JavaScript values that the handlers test for truthiness or put into a   *)
(* template string.                                                        *)
(***************************************************************************)
UNDEF == [t |-> "undefined"]

Num(n) == [t |-> "number", n |-> n]

Str(s) == [t |-> "string", s |-> s]

Comment(id, text) == [t |-> "object", id |-> id, text |-> text]

\* !v
Falsy(v) ==
    \/ v.t = "undefined"
    \/ v.t = "number" /\ v.n = 0
    \/ v.t = "string" /\ v.s = ""

\* `${v}`
TemplateStr(v) ==
    CASE v.t = "number" -> ToString(v.n)
      [] v.t = "string" -> v.s
      [] v.t = "undefined" -> "undefined"
      [] OTHER -> "[object Object]"

GameIds == {Num(0), Num(123)}

\* the game ids that pass the handlers' !gameId test
ValidGameIds == {g \in GameIds : ~Falsy(g)}

UserIds == {Num(7)}

GameIdInputs == GameIds \cup {UNDEF}

CommentInputs ==
    { UNDEF,
      Comment(Num(456), Str("hi")),
      Comment(Num(456), UNDEF),
      Comment(UNDEF, Str("hi")),
      Comment(Num(0), Str("hi")),
      Comment(Num(456), Str("")) }

CommentIdInputs == {UNDEF, Num(0), Num(456)}

MessageInputs == {Str("hello")}

(***************************************************************************)
(* Helpers of index.js.                                                    *)
(***************************************************************************)
\* mutant: the room name without its prefix
getGameRoomName_NoPrefix(gameId) == TemplateStr(gameId)

getGameRoomName(gameId) == "game_" \o TemplateStr(gameId)

getUserRoomName(userId) == "user_" \o TemplateStr(userId)

\* every channel name that occurs
RoomNames ==
    {getGameRoomName(g) : g \in GameIdInputs}
        \cup {getUserRoomName(u) : u \in UserIds}
        \cup Sids

\* the names a client passes to joinRoom / leaveRoom
RoomInputs ==
    {getGameRoomName(g) : g \in ValidGameIds}
        \cup {getUserRoomName(u) : u \in UserIds}

\* io.sockets.adapter.rooms.get(roomName), an absent room read as no members
Members(rm, roomName) == IF roomName \in DOMAIN rm THEN rm[roomName] ELSE {}

\* mutant: the count of all connected clients in place of the room's size
getRoomSize_AllClients(roomName) == Cardinality(DOMAIN connectedClients)

getRoomSize(roomName) ==
    IF roomName \in DOMAIN rooms THEN Cardinality(rooms[roomName]) ELSE 0

(***************************************************************************)
(* Socket.IO calls.                                                        *)
(***************************************************************************)
\* socket.join(room)
SocketJoin(rm, c, room) ==
    [r \in DOMAIN rm \cup {room} |->
        IF r = room THEN Members(rm, r) \cup {c} ELSE rm[r]]

\* mutant: leaveRoom without the socket.leave call
SocketLeave_Skipped(rm, c, room) == rm

\* socket.leave(room): an emptied room is deleted from the index
SocketLeave(rm, c, room) ==
    LET keep == {r \in DOMAIN rm : r # room \/ rm[r] \ {c} # {}}
    IN  [r \in keep |-> IF r = room THEN rm[r] \ {c} ELSE rm[r]]

\* mutant: the closing socket stays in the rooms it joined
SocketLeaveAll_OwnRoomOnly(rm, c) == SocketLeave(rm, c, c)

\* mutant: the rooms that the closing socket empties stay in the index
SocketLeaveAll_KeepsEmpty(rm, c) == [r \in DOMAIN rm |-> rm[r] \ {c}]

\* what the transport does to the index when socket c closes
SocketLeaveAll(rm, c) ==
    LET keep == {r \in DOMAIN rm : rm[r] \ {c} # {}}
    IN  [r \in keep |-> rm[r] \ {c}]

NoneSent == [c \in Sids |-> <<>>]

Event(name, data) == [name |-> name, data |-> data]

\* mutant: io.emit, to every connected socket, in place of io.to(roomName).emit
IoTo_Everyone(rm, roomName) == UNION {rm[r] : r \in DOMAIN rm}

\* the sockets of the room that io.to(roomName) addresses
IoTo(rm, roomName) == Members(rm, roomName)

\* mutant: the event is emitted twice
IoToEmit_Twice(rm, roomName, eventName, data) ==
    [c \in Sids |->
        IF c \in IoTo(rm, roomName)
        THEN <<Event(eventName, data), Event(eventName, data)>>
        ELSE <<>>]

\* io.to(roomName).emit(eventName, data): one packet to each socket in the room
IoToEmit(rm, roomName, eventName, data) ==
    [c \in Sids |->
        IF c \in IoTo(rm, roomName) THEN <<Event(eventName, data)>> ELSE <<>>]

\* socket.emit(eventName, data)
SocketEmit(c, eventName, data) ==
    [d \in Sids |-> IF d = c THEN <<Event(eventName, data)>> ELSE <<>>]

NoRes == [status |-> 0]

NoRet == -1

NoReq == [none |-> TRUE]

NoEmit == [room |-> "", name |-> ""]

\* the arguments of an io.to(room).emit(name, data) call
Emit(room, name, data) == [room |-> room, name |-> name, data |-> data]

\* op: the handler, from: the socket whose event it handled ("" for HTTP and
\* module calls), req: its arguments, emit: its io.to(room).emit call if it made
\* one, sent: the packets written to each socket, res: the HTTP response,
\* ret: the value returned
Out(op, from, req, emit, sent, res, ret) ==
    [op |-> op, from |-> from, req |-> req, emit |-> emit, sent |-> sent,
     res |-> res, ret |-> ret]

\* a handler that returns before it emits anything
Silent(op, from, req, res, ret) == Out(op, from, req, NoEmit, NoneSent, res, ret)

\* a handler that broadcasts
Broadcast(op, from, req, roomName, eventName, data, res, ret) ==
    Out(op, from, req, Emit(roomName, eventName, data),
        IoToEmit(rooms, roomName, eventName, data), res, ret)

(***************************************************************************)
(* Initial state: the server listens, nobody is connected, the emitter     *)
(* module has not been given the io instance.                              *)
(***************************************************************************)
InitWith(keep) ==
    /\ keepPrev = keep
    /\ socketState = [c \in Sids |-> "idle"]
    /\ rooms = <<>>
    /\ connectedClients = <<>>
    /\ emitterIo = FALSE
    /\ lastJoined = [c \in Sids |-> {}]
    /\ roomsAtClose = [c \in Sids |-> {}]
    /\ out = Silent("start", "", NoReq, NoRes, NoRet)
    /\ prev = Silent("start", "", NoReq, NoRes, NoRet)

Init == InitWith(FALSE)

\* the same initial state, two handlers in a row observed
InitTwoInARow == InitWith(TRUE)

\* every handler: prev follows out when it is kept
History ==
    /\ prev' = IF keepPrev THEN out ELSE prev
    /\ UNCHANGED keepPrev

Live == DOMAIN connectedClients

\* the node process is alive: no uncaught exception has ended it
Running == \A c \in Sids : socketState[c] # "down"

(***************************************************************************)
(* Socket event handlers.                                                  *)
(***************************************************************************)
\* io.on('connection'): the transport accepts the next connection
connection(i) ==
    LET c == SocketId(i) IN
    /\ socketState[c] = "idle"
    /\ \A j \in 1..(i - 1) : socketState[SocketId(j)] # "idle"
    /\ socketState' = [socketState EXCEPT ![c] = "open"]
    /\ rooms' = SocketJoin(rooms, c, c)
    /\ connectedClients' =
           [d \in Live \cup {c} |->
               IF d = c THEN [id |-> c, rooms |-> {}, userId |-> UNDEF]
                        ELSE connectedClients[d]]
    /\ History
    /\ out' = Silent("connection", c, NoReq, NoRes, NoRet)
    /\ UNCHANGED <<emitterIo, lastJoined, roomsAtClose>>

Subscribed(room) ==
    [room |-> room,
     message |-> [type |-> "subscribed", status |-> "success", room |-> room]]

\* the registry and the index: what the channel-control handlers change
Registry == [rooms |-> rooms, clients |-> connectedClients]

\* mutant: leaveRoom without clientInfo.rooms.delete
LeaveRoomState_KeepsClientRooms(st, c, room) ==
    [rooms |-> SocketLeave(st.rooms, c, room), clients |-> st.clients]

\* leaveRoom: socket.leave(room); clientInfo.rooms.delete(room)
LeaveRoomState(st, c, room) ==
    [rooms |-> SocketLeave(st.rooms, c, room),
     clients |-> [st.clients EXCEPT ![c].rooms = @ \ {room}]]

\* mutant: joining a channel one is already in leaves it
JoinRoomState_Toggles(st, c, room) ==
    IF room \in st.clients[c].rooms
    THEN LeaveRoomState(st, c, room)
    ELSE [rooms |-> SocketJoin(st.rooms, c, room),
          clients |-> [st.clients EXCEPT ![c].rooms = @ \cup {room}]]

\* joinRoom: socket.join(room); clientInfo.rooms.add(room)
JoinRoomState(st, c, room) ==
    [rooms |-> SocketJoin(st.rooms, c, room),
     clients |-> [st.clients EXCEPT ![c].rooms = @ \cup {room}]]

\* mutant: the confirmation is emitted to the room, not to the joining socket
joinRoom_AnnouncesToRoom(c, room) ==
    LET st == JoinRoomState(Registry, c, room) IN
    /\ socketState[c] = "open"
    /\ rooms' = st.rooms
    /\ connectedClients' = st.clients
    /\ lastJoined' = [lastJoined EXCEPT ![c] = @ \cup {room}]
    /\ History
    /\ out' = Out("joinRoom", c, [room |-> room], NoEmit,
                  IoToEmit(st.rooms, room, "message", Subscribed(room)),
                  NoRes, NoRet)
    /\ UNCHANGED <<socketState, emitterIo, roomsAtClose>>

joinRoom(c, room) ==
    LET st == JoinRoomState(Registry, c, room) IN
    /\ socketState[c] = "open"
    /\ rooms' = st.rooms
    /\ connectedClients' = st.clients
    /\ lastJoined' = [lastJoined EXCEPT ![c] = @ \cup {room}]
    /\ History
    /\ out' = Out("joinRoom", c, [room |-> room], NoEmit,
                  SocketEmit(c, "message", Subscribed(room)), NoRes, NoRet)
    /\ UNCHANGED <<socketState, emitterIo, roomsAtClose>>

\* the entry that clientInfo.rooms.add(room) makes when room is an array: the
\* array object itself, which is none of the names in it
ArrayKey(list) == "[" \o list[1] \o "]"

\* joinRoom with an array of one room name as its argument: socket.join takes a
\* room or an array of rooms and joins each, clientInfo.rooms.add(room) adds the
\* array, the confirmation carries the argument as it came
joinRoomList(c, list) ==
    /\ socketState[c] = "open"
    /\ rooms' = SocketJoin(rooms, c, list[1])
    /\ connectedClients' =
           [connectedClients EXCEPT ![c].rooms = @ \cup {ArrayKey(list)}]
    /\ lastJoined' = [lastJoined EXCEPT ![c] = @ \cup {list[1]}]
    /\ History
    /\ out' = Out("joinRoom", c, [room |-> list], NoEmit,
                  SocketEmit(c, "message", Subscribed(list)), NoRes, NoRet)
    /\ UNCHANGED <<socketState, emitterIo, roomsAtClose>>

leaveRoom(c, room) ==
    LET st == LeaveRoomState(Registry, c, room) IN
    /\ socketState[c] = "open"
    /\ rooms' = st.rooms
    /\ connectedClients' = st.clients
    /\ lastJoined' = [lastJoined EXCEPT ![c] = @ \ {room}]
    /\ History
    /\ out' = Silent("leaveRoom", c, [room |-> room], NoRes, NoRet)
    /\ UNCHANGED <<socketState, emitterIo, roomsAtClose>>

\* mutant: registering again leaves the channel of the id registered before
register_LeavesOldRoom(c, userId) ==
    LET userRoom == getUserRoomName(userId)
        oldRoom == getUserRoomName(connectedClients[c].userId)
        st == LeaveRoomState(Registry, c, oldRoom)
    IN
    /\ socketState[c] = "open"
    /\ rooms' = SocketJoin(st.rooms, c, userRoom)
    /\ connectedClients' =
           [st.clients EXCEPT ![c].userId = userId,
                              ![c].rooms = @ \cup {userRoom}]
    /\ lastJoined' = [lastJoined EXCEPT ![c] = (@ \ {oldRoom}) \cup {userRoom}]
    /\ History
    /\ out' = Silent("register", c, [userId |-> userId], NoRes, NoRet)
    /\ UNCHANGED <<socketState, emitterIo, roomsAtClose>>

\* mutant: the user id is assigned only while the connection has none
register_KeepsFirstId(c, userId) ==
    LET userRoom == getUserRoomName(userId) IN
    /\ socketState[c] = "open"
    /\ rooms' = SocketJoin(rooms, c, userRoom)
    /\ connectedClients' =
           [connectedClients EXCEPT
               ![c].userId = IF @ = UNDEF THEN userId ELSE @,
               ![c].rooms = @ \cup {userRoom}]
    /\ lastJoined' = [lastJoined EXCEPT ![c] = @ \cup {userRoom}]
    /\ History
    /\ out' = Silent("register", c, [userId |-> userId], NoRes, NoRet)
    /\ UNCHANGED <<socketState, emitterIo, roomsAtClose>>

register(c, userId) ==
    LET userRoom == getUserRoomName(userId) IN
    /\ socketState[c] = "open"
    /\ rooms' = SocketJoin(rooms, c, userRoom)
    /\ connectedClients' =
           [connectedClients EXCEPT ![c].userId = userId,
                                    ![c].rooms = @ \cup {userRoom}]
    /\ lastJoined' = [lastJoined EXCEPT ![c] = @ \cup {userRoom}]
    /\ History
    /\ out' = Silent("register", c, [userId |-> userId], NoRes, NoRet)
    /\ UNCHANGED <<socketState, emitterIo, roomsAtClose>>

\* mutant: the closing socket is still in its rooms when the next handler runs
disconnect_RoomsKept(c) ==
    /\ socketState[c] = "open"
    /\ socketState' = [socketState EXCEPT ![c] = "closed"]
    /\ connectedClients' = [d \in Live \ {c} |-> connectedClients[d]]
    /\ lastJoined' = [lastJoined EXCEPT ![c] = {}]
    /\ roomsAtClose' =
           [roomsAtClose EXCEPT ![c] = {r \in DOMAIN rooms : c \in rooms[r]}]
    /\ History
    /\ out' = Silent("disconnect", c, NoReq, NoRes, NoRet)
    /\ UNCHANGED <<emitterIo, rooms>>

\* mutant: the disconnect handler clears the registry
DisconnectState_ClearsRegistry(st, c) ==
    [rooms |-> SocketLeaveAll(st.rooms, c), clients |-> <<>>]

\* disconnect: the transport takes the socket out of its rooms, then the
\* handler does connectedClients.delete(socket.id)
DisconnectState(st, c) ==
    [rooms |-> SocketLeaveAll(st.rooms, c),
     clients |-> [d \in DOMAIN st.clients \ {c} |-> st.clients[d]]]

disconnect(c) ==
    LET st == DisconnectState(Registry, c) IN
    /\ socketState[c] = "open"
    /\ socketState' = [socketState EXCEPT ![c] = "closed"]
    /\ rooms' = st.rooms
    /\ connectedClients' = st.clients
    /\ lastJoined' = [lastJoined EXCEPT ![c] = {}]
    /\ roomsAtClose' =
           [roomsAtClose EXCEPT ![c] = {r \in DOMAIN rooms : c \in rooms[r]}]
    /\ History
    /\ out' = Silent("disconnect", c, NoReq, NoRes, NoRet)
    /\ UNCHANGED emitterIo

(***************************************************************************)
(* Relay events: a socket asks the server to broadcast.                    *)
(***************************************************************************)
broadcast_players_updated(c, gameId) ==
    LET op == "broadcast_players_updated"
        req == [gameId |-> gameId]
    IN
    /\ socketState[c] = "open"
    /\ History
    /\ out' =
         IF Falsy(gameId)
         THEN Silent(op, c, req, NoRes, NoRet)
         ELSE Broadcast(op, c, req, getGameRoomName(gameId),
                        "game_players_updated", [gameId |-> gameId], NoRes, NoRet)
    /\ UNCHANGED <<socketState, rooms, connectedClients, emitterIo, lastJoined,
                 roomsAtClose>>

\* mutant: the membership check is dropped
SenderInRoom_Unchecked(c, roomName) == TRUE

\* clientInfo.rooms.has(roomName)
SenderInRoom(c, roomName) == roomName \in connectedClients[c].rooms

broadcast_comment_new(c, gameId, comment) ==
    LET op == "broadcast_comment_new"
        req == [gameId |-> gameId, comment |-> comment]
        roomName == getGameRoomName(gameId)
    IN
    /\ socketState[c] = "open"
    /\ History
    /\ out' =
         IF Falsy(gameId) \/ Falsy(comment)
         THEN Silent(op, c, req, NoRes, NoRet)
         ELSE IF ~SenderInRoom(c, roomName)
         THEN Silent(op, c, req, NoRes, NoRet)
         ELSE Broadcast(op, c, req, roomName, "game_comment_new", comment,
                        NoRes, NoRet)
    /\ UNCHANGED <<socketState, rooms, connectedClients, emitterIo, lastJoined,
                 roomsAtClose>>

\* mutant: sending a message to a room makes the sender a member of it
message_JoinsSender(c, room, msg) ==
    LET st == JoinRoomState(Registry, c, room) IN
    /\ socketState[c] = "open"
    /\ rooms' = st.rooms
    /\ connectedClients' = st.clients
    /\ lastJoined' = [lastJoined EXCEPT ![c] = @ \cup {room}]
    /\ History
    /\ out' = Broadcast("message", c, [room |-> room, message |-> msg],
                        room, "message",
                        [room |-> room, message |-> msg, from |-> c],
                        NoRes, NoRet)
    /\ UNCHANGED <<socketState, emitterIo, roomsAtClose>>

\* mutant: the message relay is gated like broadcast_comment_new
message_Gated(c, room, msg) ==
    /\ socketState[c] = "open"
    /\ History
    /\ out' =
         IF ~SenderInRoom(c, room)
         THEN Silent("message", c, [room |-> room, message |-> msg], NoRes, NoRet)
         ELSE Broadcast("message", c, [room |-> room, message |-> msg],
                        room, "message",
                        [room |-> room, message |-> msg, from |-> c],
                        NoRes, NoRet)
    /\ UNCHANGED <<socketState, rooms, connectedClients, emitterIo, lastJoined,
                 roomsAtClose>>

message(c, room, msg) ==
    /\ socketState[c] = "open"
    /\ History
    /\ out' = Broadcast("message", c, [room |-> room, message |-> msg],
                        room, "message",
                        [room |-> room, message |-> msg, from |-> c],
                        NoRes, NoRet)
    /\ UNCHANGED <<socketState, rooms, connectedClients, emitterIo, lastJoined,
                 roomsAtClose>>

\* mutant: the private message goes to the connections registered under the
\* user id that the name stands for, members of the channel or not
privateMessage_ToRegistered(c, to, msg) ==
    LET data == [message |-> msg, from |-> c] IN
    /\ socketState[c] = "open"
    /\ History
    /\ out' = Out("privateMessage", c, [to |-> to, message |-> msg],
                  Emit(to, "privateMessage", data),
                  [d \in Sids |->
                      IF d \in Live /\ getUserRoomName(connectedClients[d].userId) = to
                      THEN <<Event("privateMessage", data)>>
                      ELSE <<>>],
                  NoRes, NoRet)
    /\ UNCHANGED <<socketState, rooms, connectedClients, emitterIo, lastJoined,
                 roomsAtClose>>

privateMessage(c, to, msg) ==
    /\ socketState[c] = "open"
    /\ History
    /\ out' = Broadcast("privateMessage", c, [to |-> to, message |-> msg],
                        to, "privateMessage", [message |-> msg, from |-> c],
                        NoRes, NoRet)
    /\ UNCHANGED <<socketState, rooms, connectedClients, emitterIo, lastJoined,
                 roomsAtClose>>

(***************************************************************************)
(* The listeners as registered: the relay handlers destructure the event's *)
(* argument in their parameter list, ({ gameId }) => ..., which throws a   *)
(* TypeError when the client sent no argument; joinRoom, leaveRoom and     *)
(* register take the argument as it is.                                    *)
(***************************************************************************)
Obj(fields) == [t |-> "object"] @@ fields

\* the key undefined of the index: socket.join(undefined), io.to(undefined);
\* the clients of the model join no channel named by this string
UndefinedRoom == "undefined"

\* ({ f }) => ... cannot destructure undefined
Throws(payload) == payload.t = "undefined"

\* payload.f, undefined when the payload has no such property
Field(payload, f) == IF f \in DOMAIN payload THEN payload[f] ELSE UNDEF

\* payload.f where the handler uses it as a room name
RoomField(payload, f) == IF f \in DOMAIN payload THEN payload[f] ELSE UndefinedRoom

\* a listener threw: the exception reaches the top of the event loop and the
\* process exits, taking every connection and the registry with it
uncaughtException(c, event) ==
    /\ socketState[c] = "open"
    /\ socketState' = [d \in Sids |-> "down"]
    /\ rooms' = <<>>
    /\ connectedClients' = <<>>
    /\ lastJoined' = [d \in Sids |-> {}]
    /\ History
    /\ out' = Silent("uncaughtException", c, [event |-> event], NoRes, NoRet)
    /\ UNCHANGED <<emitterIo, roomsAtClose>>

on_broadcast_players_updated(c, payload) ==
    IF Throws(payload)
    THEN uncaughtException(c, "broadcast_players_updated")
    ELSE broadcast_players_updated(c, Field(payload, "gameId"))

on_broadcast_comment_new(c, payload) ==
    IF Throws(payload)
    THEN uncaughtException(c, "broadcast_comment_new")
    ELSE broadcast_comment_new(c, Field(payload, "gameId"), Field(payload, "comment"))

on_message(c, payload) ==
    IF Throws(payload)
    THEN uncaughtException(c, "message")
    ELSE message(c, RoomField(payload, "room"), Field(payload, "message"))

on_privateMessage(c, payload) ==
    IF Throws(payload)
    THEN uncaughtException(c, "privateMessage")
    ELSE privateMessage(c, RoomField(payload, "to"), Field(payload, "message"))

\* what a client sends with a relay event: nothing, a number, an object
PlayersPayloads == {UNDEF, Num(5), Obj([gameId |-> Num(123)])}

CommentPayloads ==
    {UNDEF, Num(5), Obj([gameId |-> Num(123)]),
     Obj([gameId |-> Num(123), comment |-> Comment(Num(456), Str("hi"))])}

MessagePayloads ==
    {UNDEF, Num(5), Obj([room |-> "game_123", message |-> Str("hello")])}

PrivatePayloads ==
    {UNDEF, Num(5), Obj([to |-> "user_7", message |-> Str("hello")])}

(***************************************************************************)
(* HTTP API.                                                               *)
(***************************************************************************)
Res400(error) == [status |-> 400, error |-> error]

Res200(gameId, roomName, recipientCount, event) ==
    [status |-> 200, success |-> TRUE, gameId |-> gameId, room |-> roomName,
     recipients |-> recipientCount, event |-> event]

\* mutant: the snapshot counts every connection the server ever accepted
health_CountsEverConnected ==
    /\ Running
    /\ History
    /\ out' = Silent("GET /health", "", NoReq,
                     [status |-> 200,
                      clients |-> Cardinality({c \in Sids : socketState[c] # "idle"}),
                      rooms |-> Cardinality(DOMAIN rooms)],
                     NoRet)
    /\ UNCHANGED <<socketState, rooms, connectedClients, emitterIo, lastJoined,
                 roomsAtClose>>

\* GET /health
health ==
    /\ Running
    /\ History
    /\ out' = Silent("GET /health", "", NoReq,
                     [status |-> 200,
                      clients |-> Cardinality(DOMAIN connectedClients),
                      rooms |-> Cardinality(DOMAIN rooms)],
                     NoRet)
    /\ UNCHANGED <<socketState, rooms, connectedClients, emitterIo, lastJoined,
                 roomsAtClose>>

\* mutant: the size is counted in the registry's channel sets, not in the index
roomInfo_CountsRegistry(roomName) ==
    LET size == Cardinality({c \in Live : roomName \in connectedClients[c].rooms}) IN
    /\ History
    /\ out' = Silent("GET /api/room", "", [roomName |-> roomName],
                     [status |-> 200, room |-> roomName, clients |-> size,
                      exists |-> size > 0],
                     NoRet)
    /\ Running
    /\ UNCHANGED <<socketState, rooms, connectedClients, emitterIo, lastJoined,
                 roomsAtClose>>

\* GET /api/room/:roomName
roomInfo(roomName) ==
    LET size == getRoomSize(roomName) IN
    /\ History
    /\ out' = Silent("GET /api/room", "", [roomName |-> roomName],
                     [status |-> 200, room |-> roomName, clients |-> size,
                      exists |-> size > 0],
                     NoRet)
    /\ Running
    /\ UNCHANGED <<socketState, rooms, connectedClients, emitterIo, lastJoined,
                 roomsAtClose>>

\* emitToGame(gameId, eventName, data) of index.js, called by the handler op
\* that answers with the count it returns
emitToGame(op, req, gameId, eventName, data) ==
    LET roomName == getGameRoomName(gameId)
        clientCount == getRoomSize(roomName)
    IN  Broadcast(op, "", req, roomName, eventName, data,
                  Res200(gameId, roomName, clientCount, eventName), clientCount)

\* POST /api/broadcast/game-comment/new
postCommentNew(gameId, comment) ==
    LET op == "POST /api/broadcast/game-comment/new"
        req == [gameId |-> gameId, comment |-> comment]
    IN
    /\ Running
    /\ History
    /\ out' =
         IF Falsy(gameId) \/ Falsy(comment)
         THEN Silent(op, "", req, Res400("Missing required fields"), NoRet)
         ELSE IF Falsy(comment.id) \/ Falsy(comment.text)
         THEN Silent(op, "", req, Res400("Comment must have id and text fields"),
                     NoRet)
         ELSE emitToGame(op, req, gameId, "game_comment_new", comment)
    /\ UNCHANGED <<socketState, rooms, connectedClients, emitterIo, lastJoined,
                 roomsAtClose>>

\* POST /api/broadcast/game-comment/edit
postCommentEdit(gameId, comment) ==
    LET op == "POST /api/broadcast/game-comment/edit"
        req == [gameId |-> gameId, comment |-> comment]
    IN
    /\ Running
    /\ History
    /\ out' =
         IF Falsy(gameId) \/ Falsy(comment)
         THEN Silent(op, "", req, Res400("Missing required fields"), NoRet)
         ELSE IF Falsy(comment.id)
         THEN Silent(op, "", req, Res400("Comment must have id field"), NoRet)
         ELSE emitToGame(op, req, gameId, "game_comment_edit", comment)
    /\ UNCHANGED <<socketState, rooms, connectedClients, emitterIo, lastJoined,
                 roomsAtClose>>

\* mutant: the delete is broadcast before the body is validated
postCommentDelete_EmitsFirst(gameId, commentId) ==
    LET op == "POST /api/broadcast/game-comment/delete"
        req == [gameId |-> gameId, commentId |-> commentId]
        sentOut == emitToGame(op, req, gameId, "game_comment_delete",
                              [id |-> commentId, gameId |-> gameId])
    IN
    /\ Running
    /\ History
    /\ out' =
         IF Falsy(gameId) \/ Falsy(commentId)
         THEN [sentOut EXCEPT !.res = Res400("Missing required fields"),
                              !.ret = NoRet]
         ELSE sentOut
    /\ UNCHANGED <<socketState, rooms, connectedClients, emitterIo, lastJoined,
                   roomsAtClose>>

\* POST /api/broadcast/game-comment/delete
postCommentDelete(gameId, commentId) ==
    LET op == "POST /api/broadcast/game-comment/delete"
        req == [gameId |-> gameId, commentId |-> commentId]
    IN
    /\ Running
    /\ History
    /\ out' =
         IF Falsy(gameId) \/ Falsy(commentId)
         THEN Silent(op, "", req, Res400("Missing required fields"), NoRet)
         ELSE emitToGame(op, req, gameId, "game_comment_delete",
                         [id |-> commentId, gameId |-> gameId])
    /\ UNCHANGED <<socketState, rooms, connectedClients, emitterIo, lastJoined,
                 roomsAtClose>>

(***************************************************************************)
(* The socketEmitter module: the same broadcasts, called by the backend    *)
(* in process, behind a handle that init(io) sets.                         *)
(***************************************************************************)
init ==
    /\ Running
    /\ emitterIo' = TRUE
    /\ History
    /\ out' = Silent("init", "", NoReq, NoRes, NoRet)
    /\ UNCHANGED <<socketState, rooms, connectedClients, lastJoined, roomsAtClose>>

\* mutant: getRoomSize of the emitter module without its !io test
emitter_getRoomSize_Unguarded(roomName) == getRoomSize(roomName)

\* getRoomSize of the emitter module
emitter_getRoomSize(roomName) == IF ~emitterIo THEN 0 ELSE getRoomSize(roomName)

\* the backend calls the emitter module's getRoomSize
emitterRoomSize(roomName) ==
    /\ Running
    /\ History
    /\ out' = Silent("getRoomSize", "", [roomName |-> roomName], NoRes,
                     emitter_getRoomSize(roomName))
    /\ UNCHANGED <<socketState, rooms, connectedClients, emitterIo, lastJoined,
                 roomsAtClose>>

\* the body the five emit functions share: guard, count, emit, return the count
EmitterEmit(op, req, roomName, eventName, data) ==
    /\ Running
    /\ History
    /\ out' =
         IF ~emitterIo
         THEN Silent(op, "", req, NoRes, 0)
         ELSE LET recipients == emitter_getRoomSize(roomName)
              IN  Broadcast(op, "", req, roomName, eventName, data, NoRes, recipients)
    /\ UNCHANGED <<socketState, rooms, connectedClients, emitterIo, lastJoined,
                 roomsAtClose>>

emitNewComment(gameId, comment) ==
    EmitterEmit("emitNewComment", [gameId |-> gameId, comment |-> comment],
                getGameRoomName(gameId), "game_comment_new", comment)

emitEditComment(gameId, comment) ==
    EmitterEmit("emitEditComment", [gameId |-> gameId, comment |-> comment],
                getGameRoomName(gameId), "game_comment_edit", comment)

emitDeleteComment(gameId, commentId) ==
    EmitterEmit("emitDeleteComment", [gameId |-> gameId, commentId |-> commentId],
                getGameRoomName(gameId), "game_comment_delete",
                [id |-> commentId, gameId |-> gameId])

emitter_emitToGame(gameId, eventName, data) ==
    EmitterEmit("emitToGame",
                [gameId |-> gameId, eventName |-> eventName, data |-> data],
                getGameRoomName(gameId), eventName, data)

\* mutant: the per-user delivery goes to the game channel of the same number
emitToUser_ToGameRoom(userId, eventName, data) ==
    EmitterEmit("emitToUser",
                [userId |-> userId, eventName |-> eventName, data |-> data],
                getGameRoomName(userId), eventName, data)

emitToUser(userId, eventName, data) ==
    EmitterEmit("emitToUser",
                [userId |-> userId, eventName |-> eventName, data |-> data],
                getUserRoomName(userId), eventName, data)

\* the comment object a backend hands to the emitter
FullComment == Comment(Num(456), Str("hi"))

(***************************************************************************)
(* Next-state relations.  Membership holds every handler that changes the  *)
(* registry or the index; the handlers of the other groups write only out  *)
(* (and init the emitter's handle), so the registry and index states       *)
(* reachable under each specification below are those reachable under Spec.*)
(***************************************************************************)
Membership ==
    \/ \E i \in 1..MaxSockets : connection(i)
    \/ \E c \in Sids : \E room \in RoomInputs : joinRoom(c, room)
    \/ \E c \in Sids : \E room \in RoomInputs : leaveRoom(c, room)
    \/ \E c \in Sids : \E u \in UserIds : register(c, u)
    \/ \E c \in Sids : disconnect(c)

Queries ==
    \/ health
    \/ \E roomName \in RoomNames : roomInfo(roomName)

Relay ==
    \/ \E c \in Sids : \E g \in GameIdInputs : broadcast_players_updated(c, g)
    \/ \E c \in Sids : \E g \in GameIdInputs :
          \E cm \in {UNDEF, FullComment} : broadcast_comment_new(c, g, cm)
    \/ \E c \in Sids : \E room \in RoomNames : \E m \in MessageInputs :
          message(c, room, m)
    \/ \E c \in Sids : \E to \in RoomNames : \E m \in MessageInputs :
          privateMessage(c, to, m)

Http ==
    \/ \E g \in GameIdInputs : \E cm \in CommentInputs : postCommentNew(g, cm)
    \/ \E g \in GameIdInputs : \E cm \in CommentInputs : postCommentEdit(g, cm)
    \/ \E g \in GameIdInputs : \E ci \in CommentIdInputs : postCommentDelete(g, ci)

Emitter ==
    \/ init
    \/ \E g \in GameIds : emitNewComment(g, FullComment)
    \/ \E g \in GameIds : emitEditComment(g, FullComment)
    \/ \E g \in GameIds : emitDeleteComment(g, Num(456))
    \/ \E g \in GameIds : emitter_emitToGame(g, "game_players_updated", [gameId |-> g])
    \/ \E u \in UserIds : emitToUser(u, "notification", Str("hello"))

\* the socket events with the payloads a client can send, a missing one and a
\* non-object one included
Payloads ==
    \/ \E c \in Sids : joinRoom(c, UndefinedRoom)
    \/ \E c \in Sids : leaveRoom(c, UndefinedRoom)
    \/ \E c \in Sids : register(c, UNDEF)
    \/ \E c \in Sids : \E p \in PlayersPayloads : on_broadcast_players_updated(c, p)
    \/ \E c \in Sids : \E p \in CommentPayloads : on_broadcast_comment_new(c, p)
    \/ \E c \in Sids : \E p \in MessagePayloads : on_message(c, p)
    \/ \E c \in Sids : \E p \in PrivatePayloads : on_privateMessage(c, p)

\* the emitter module's query
EmitterQueries == \E roomName \in RoomInputs : emitterRoomSize(roomName)

\* a second user id, and deliveries to the user channels
OtherUserIds == {Num(8)}

Registrations ==
    \/ \E c \in Sids : \E u \in OtherUserIds : register(c, u)
    \/ \E c \in Sids : \E u \in UserIds \cup OtherUserIds : \E m \in MessageInputs :
          privateMessage(c, getUserRoomName(u), m)

\* the players-updated relay for every game id a client can send, game 0
\* included, and the channel of game 0
Players ==
    \/ \E c \in Sids : joinRoom(c, getGameRoomName(Num(0)))
    \/ \E c \in Sids : leaveRoom(c, getGameRoomName(Num(0)))
    \/ \E c \in Sids : \E g \in GameIdInputs : broadcast_players_updated(c, g)

\* the gated relay for every game id that a comment can carry, game 0 and its
\* channel included, and joinRoom with an array argument
Gate ==
    \/ \E c \in Sids : \E g \in ValidGameIds : joinRoomList(c, <<getGameRoomName(g)>>)
    \/ \E c \in Sids : joinRoom(c, getGameRoomName(Num(0)))
    \/ \E c \in Sids : leaveRoom(c, getGameRoomName(Num(0)))
    \/ \E c \in Sids : \E g \in GameIds : broadcast_comment_new(c, g, FullComment)

Next ==
    \/ Membership \/ Queries \/ Relay \/ Http \/ Emitter \/ EmitterQueries
    \/ Payloads \/ Registrations \/ Players \/ Gate

Spec == Init /\ [][Next]_vars

\* connections and the channel-control events, two handlers in a row observed
NextRooms == Membership

SpecRooms == InitTwoInARow /\ [][NextRooms]_vars

\* connections and the channel-control events, observed through the queries
NextQueries == Membership \/ Queries

SpecQueries == Init /\ [][NextQueries]_vars

\* connections, channel control and the relay events of the sockets
NextRelay == Membership \/ Relay

SpecRelay == Init /\ [][NextRelay]_vars

\* connections, channel control and the socket events with their payloads
NextPayload == Membership \/ Payloads

SpecPayload == Init /\ [][NextPayload]_vars

\* connections, channel control, registration under two user ids and
\* private messages
NextRegister == Membership \/ Registrations

SpecRegister == Init /\ [][NextRegister]_vars

NextPlayers == Membership \/ Players

SpecPlayers == Init /\ [][NextPlayers]_vars

\* connections, channel control with its array form, and the gated relay
NextGate == Membership \/ Gate

SpecGate == Init /\ [][NextGate]_vars

\* connections, channel control and the HTTP broadcast endpoints
NextHttp == Membership \/ Http

SpecHttp == Init /\ [][NextHttp]_vars

\* connections, channel control and the emitter module
NextEmitter == Membership \/ Emitter \/ EmitterQueries

SpecEmitter == Init /\ [][NextEmitter]_vars

\* every broadcast path, called with arguments that pass its validation
Broadcasts ==
    \/ \E c \in Sids : \E g \in ValidGameIds : broadcast_players_updated(c, g)
    \/ \E c \in Sids : \E g \in ValidGameIds :
          broadcast_comment_new(c, g, FullComment)
    \/ \E c \in Sids : \E room \in RoomInputs \cup Sids : \E m \in MessageInputs :
          message(c, room, m)
    \/ \E c \in Sids : \E to \in RoomInputs \cup Sids : \E m \in MessageInputs :
          privateMessage(c, to, m)
    \/ \E g \in ValidGameIds : postCommentNew(g, FullComment)
    \/ \E g \in ValidGameIds : postCommentEdit(g, FullComment)
    \/ \E g \in ValidGameIds : postCommentDelete(g, Num(456))
    \/ Emitter

NextBroadcast == Membership \/ Broadcasts

SpecBroadcast == Init /\ [][NextBroadcast]_vars

\* every broadcast path and the room query
Paths ==
    \/ \E c \in Sids : \E g \in ValidGameIds : broadcast_players_updated(c, g)
    \/ \E c \in Sids : \E g \in ValidGameIds :
          broadcast_comment_new(c, g, FullComment)
    \/ \E c \in Sids : \E room \in RoomInputs : \E m \in MessageInputs :
          message(c, room, m)
    \/ \E c \in Sids : \E to \in RoomInputs : \E m \in MessageInputs :
          privateMessage(c, to, m)
    \/ \E g \in ValidGameIds : postCommentNew(g, FullComment)
    \/ \E g \in ValidGameIds : postCommentEdit(g, FullComment)
    \/ \E g \in ValidGameIds : postCommentDelete(g, Num(456))
    \/ Emitter
    \/ \E roomName \in RoomInputs : roomInfo(roomName)

NextPaths == Membership \/ Paths

SpecPaths == Init /\ [][NextPaths]_vars

\* broadcast requests interleaved with the channel-control events, two
\* handlers in a row observed
Interleaved ==
    \/ \E g \in ValidGameIds : postCommentNew(g, FullComment)
    \/ \E c \in Sids : \E g \in ValidGameIds :
          broadcast_comment_new(c, g, FullComment)

NextInterleaved == Membership \/ Interleaved

SpecInterleaved == InitTwoInARow /\ [][NextInterleaved]_vars

(***************************************************************************)
(* Properties.                                                             *)
(***************************************************************************)
\* the live connections whose most recent membership event for r was a join
LastJoiners(r) == {c \in Live : r \in lastJoined[c]}

\* the handler that ran last made an io.to(room).emit call
Emitted == out.emit # NoEmit

\* the sockets the last handler wrote at least one packet to
Recipients == {c \in Sids : out.sent[c] # <<>>}

C2_JoinedReceivesExactlyOnce ==
    /\ \A c \in Live : \A r \in lastJoined[c] : getRoomSize(r) >= 1
    /\ Emitted =>
         \A c \in Sids :
            out.emit.room \in lastJoined[c] =>
               out.sent[c] = <<Event(out.emit.name, out.emit.data)>>

\* a broadcast to a channel that one connection joined and another did not
C2_Witness ==
    /\ Emitted
    /\ \E c, d \in Live :
          /\ out.emit.room \in lastJoined[c]
          /\ out.emit.room \notin lastJoined[d]
          /\ Len(out.sent[c]) = 1
          /\ out.sent[d] = <<>>

SizeIn(st, r) == Cardinality(Members(st.rooms, r))

\* the last two handlers were op1 then op2, from the same socket for the same room
InARow(op1, op2) ==
    /\ prev.op = op1
    /\ out.op = op2
    /\ prev.from = out.from
    /\ prev.req = out.req

(* C4: when a connection that is not a member of game_<g> sends            *)
(* broadcast_comment_new({gameId: g, comment}), the handler writes no      *)
(* packet to any socket, the sender included, and changes neither the      *)
(* index nor the registry.                                                 *)
C4_GatedBroadcastRejected ==
    [][ ( /\ out'.op = "broadcast_comment_new"
          /\ out'.from \notin Members(rooms, getGameRoomName(out'.req.gameId)) )
        => ( /\ out'.sent = NoneSent
             /\ out'.emit = NoEmit
             /\ rooms' = rooms
             /\ connectedClients' = connectedClients ) ]_vars

\* a well-formed broadcast_comment_new from a connection outside a game
\* channel that has a member
C4_Witness ==
    /\ out.op = "broadcast_comment_new"
    /\ ~Falsy(out.req.gameId)
    /\ ~Falsy(out.req.comment)
    /\ out.from \in Live
    /\ out.from \notin Members(rooms, getGameRoomName(out.req.gameId))
    /\ getRoomSize(getGameRoomName(out.req.gameId)) >= 1
    /\ out.sent = NoneSent

(* C5: the sockets a broadcast writes to are exactly the members of the    *)
(* target channel when the handler is invoked, and a joinRoom handled      *)
(* after the broadcast writes only its own subscription confirmation, to   *)
(* the joiner: the broadcast event never reaches a later joiner.           *)
C5_AudienceIsSnapshot ==
    [][ /\ out'.emit # NoEmit =>
              /\ rooms' = rooms
              /\ \A c \in Sids :
                    out'.sent[c] =
                       IF c \in Members(rooms, out'.emit.room)
                       THEN <<Event(out'.emit.name, out'.emit.data)>>
                       ELSE <<>>
        /\ out'.op = "joinRoom" =>
              /\ out'.emit = NoEmit
              /\ \A c \in Sids :
                    out'.sent[c] =
                       IF c = out'.from
                       THEN <<Event("message", Subscribed(out'.req.room))>>
                       ELSE <<>> ]_vars

\* a broadcast to a channel reached its member, and the next handler was the
\* joinRoom of a connection that the broadcast did not reach
C5_Witness ==
    /\ prev.emit # NoEmit
    /\ \E c \in Sids : prev.sent[c] # <<>>
    /\ out.op = "joinRoom"
    /\ out.req.room = prev.emit.room
    /\ prev.sent[out.from] = <<>>
    /\ out.from \in Members(rooms, prev.emit.room)

(* C6, as stated: leaveRoom(r) after joinRoom(r) from c returns the index  *)
(* and the registry to what they were before the joinRoom, also when c was *)
(* a member of r before it.                                                *)
C6_LeaveUndoesJoinAlways ==
    \A c \in Live : \A r \in RoomInputs :
       LeaveRoomState(JoinRoomState(Registry, c, r), c, r) = Registry

(* C6, amended: leaveRoom(r) after joinRoom(r) from c leaves c outside r   *)
(* and makes the size of r exactly one less than after the joinRoom, never *)
(* negative; it returns the index and the registry to what they were       *)
(* before the joinRoom when c was not a member of r before it, and to that *)
(* state with c taken out of r when c was.                                 *)
C6_LeaveUndoesJoin ==
    /\ \A c \in Live : \A r \in RoomInputs :
          LET joined == JoinRoomState(Registry, c, r)
              left == LeaveRoomState(joined, c, r)
          IN  /\ SizeIn(left, r) = SizeIn(joined, r) - 1
              /\ SizeIn(left, r) >= 0
              /\ c \notin Members(left.rooms, r)
              /\ r \notin left.clients[c].rooms
              /\ c \notin Members(rooms, r) => left = Registry
              /\ c \in Members(rooms, r) =>
                    /\ left = LeaveRoomState(Registry, c, r)
                    /\ left # Registry
    /\ InARow("joinRoom", "leaveRoom") =>
          /\ out.from \notin Members(rooms, out.req.room)
          /\ out.req.room \notin connectedClients[out.from].rooms

\* c joined a channel that has another member and left it again
C6_Witness ==
    /\ InARow("joinRoom", "leaveRoom")
    /\ getRoomSize(out.req.room) >= 1

(* C7: handling joinRoom(r) from c twice leaves the index, the registry    *)
(* and the size of r as handling it once does, and c is a member.          *)
C7_JoinIdempotent ==
    /\ \A c \in Live : \A r \in RoomInputs :
          LET once == JoinRoomState(Registry, c, r)
              twice == JoinRoomState(once, c, r)
          IN  /\ twice = once
              /\ SizeIn(twice, r) = SizeIn(once, r)
    /\ InARow("joinRoom", "joinRoom") =>
          /\ out.from \in Members(rooms, out.req.room)
          /\ out.req.room \in connectedClients[out.from].rooms
          /\ out.sent = prev.sent

\* the same connection has joined the same channel twice in a row
C7_Witness ==
    /\ InARow("joinRoom", "joinRoom")
    /\ getRoomSize(out.req.room) = 2

EmitterOps ==
    {"emitNewComment", "emitEditComment", "emitDeleteComment", "emitToGame",
     "emitToUser"}

PostOps ==
    {"POST /api/broadcast/game-comment/new", "POST /api/broadcast/game-comment/edit",
     "POST /api/broadcast/game-comment/delete"}

\* the channel that a counting broadcast operation targets, from its arguments
TargetRoom(o) ==
    IF o.op = "emitToUser"
    THEN "user_" \o TemplateStr(o.req.userId)
    ELSE "game_" \o TemplateStr(o.req.gameId)

(* C8, as stated: the count returned by every broadcast operation          *)
(* (emitToGame of the server and the five emit functions of the emitter    *)
(* module) is the number of members of the target channel, which is the    *)
(* number of sockets the call writes to.  Violated by an emit function     *)
(* called before init(io) while the channel has members: it returns 0.     *)
C8_CountIsMembersAlways ==
    out.ret # NoRet =>
       /\ out.ret = Cardinality(Members(rooms, TargetRoom(out)))
       /\ out.ret = Cardinality(Recipients)

(* C8, amended: the count that a broadcast operation returns (emitToGame   *)
(* of the server, answered as recipients, and the five emit functions of   *)
(* the emitter module once init(io) has been called) is the number of      *)
(* members of the target channel when it is invoked and the number of      *)
(* sockets the same call writes to; an emit function called before         *)
(* init(io) returns 0 and writes to nobody.                                *)
C8_CountIsAudience ==
    [][ out'.ret # NoRet =>
          /\ out'.op \in EmitterOps \cup PostOps
          /\ out'.ret = Cardinality({c \in Sids : out'.sent[c] # <<>>})
          /\ out'.emit # NoEmit =>
                /\ out'.emit.room = TargetRoom(out')
                /\ out'.ret = Cardinality(Members(rooms, out'.emit.room))
                /\ out'.op \in PostOps => out'.res.recipients = out'.ret
                /\ out'.op \in EmitterOps => emitterIo
          /\ out'.emit = NoEmit =>
                /\ out'.op \in EmitterOps
                /\ ~emitterIo
                /\ out'.ret = 0 ]_vars

\* an emit function of the initialised emitter module returned 2, the two
\* members of its target channel having been written to
C8_Witness ==
    /\ out.op \in EmitterOps
    /\ emitterIo
    /\ out.ret = 2
    /\ Cardinality(Recipients) = 2

\* the event name of each HTTP broadcast endpoint
PostEvent(op) ==
    CASE op = "POST /api/broadcast/game-comment/new" -> "game_comment_new"
      [] op = "POST /api/broadcast/game-comment/edit" -> "game_comment_edit"
      [] op = "POST /api/broadcast/game-comment/delete" -> "game_comment_delete"

\* the payload each HTTP broadcast endpoint is to deliver for a request
PostPayload(op, req) ==
    IF op = "POST /api/broadcast/game-comment/delete"
    THEN [id |-> req.commentId, gameId |-> req.gameId]
    ELSE req.comment

(* C9: a successful HTTP broadcast request for game g writes exactly one   *)
(* packet to every connection in game_<g> and none to any other, the       *)
(* packet carries the endpoint's event name and the request's payload      *)
(* unchanged, and the response reports success, the room game_<g> and as   *)
(* recipients the number of members of that room.                          *)
C9_HttpBroadcastDelivers ==
    (out.op \in PostOps /\ out.res.status = 200) =>
       LET g == out.req.gameId
           room == "game_" \o TemplateStr(g)
           packet == Event(PostEvent(out.op), PostPayload(out.op, out.req))
       IN  /\ \A c \in Sids :
                 out.sent[c] = IF c \in Members(rooms, room) THEN <<packet>> ELSE <<>>
           /\ out.res.success = TRUE
           /\ out.res.gameId = g
           /\ out.res.room = room
           /\ g = Num(123) => out.res.room = "game_123"
           /\ out.res.recipients = Cardinality(Members(rooms, room))
           /\ out.res.event = PostEvent(out.op)

\* POST .../new with {gameId: 123, comment: {id: 456, text: "hi"}} while two
\* connections are in game_123: recipients 2, both got the comment
C9_Witness ==
    /\ out.op = "POST /api/broadcast/game-comment/new"
    /\ out.req = [gameId |-> Num(123), comment |-> Comment(Num(456), Str("hi"))]
    /\ out.res.status = 200
    /\ out.res.recipients = 2
    /\ Cardinality(Members(rooms, "game_123")) = 2
    /\ \A c \in Members(rooms, "game_123") :
          out.sent[c] = <<Event("game_comment_new", Comment(Num(456), Str("hi")))>>

(* C10: an HTTP broadcast request answered with 400 writes no packet to    *)
(* any socket and changes neither the index nor the registry; delete       *)
(* without a commentId is answered with 400.                               *)
C10_RejectedRequestHasNoEffect ==
    [][ /\ out'.res.status = 400 =>
              /\ out'.op \in PostOps
              /\ out'.sent = NoneSent
              /\ out'.emit = NoEmit
              /\ rooms' = rooms
              /\ connectedClients' = connectedClients
              /\ socketState' = socketState
        /\ ( /\ out'.op = "POST /api/broadcast/game-comment/delete"
             /\ out'.req.commentId = UNDEF ) => out'.res.status = 400 ]_vars

\* POST .../delete with {gameId: 123} and no commentId while game_123 has a
\* member: 400, nothing sent
C10_Witness ==
    /\ out.op = "POST /api/broadcast/game-comment/delete"
    /\ out.req = [gameId |-> Num(123), commentId |-> UNDEF]
    /\ out.res.status = 400
    /\ getRoomSize("game_123") >= 1
    /\ out.sent = NoneSent

\* the field is absent from the body
Missing(v) == v = UNDEF

\* a field of the comment object of a request, absent when the object is
CommentField(req, f) == IF Missing(req.comment) THEN UNDEF ELSE req.comment[f]

\* the fields each HTTP broadcast endpoint requires, as they are in a request
RequiredFields(op, req) ==
    CASE op = "POST /api/broadcast/game-comment/new" ->
           {req.gameId, req.comment, CommentField(req, "id"),
            CommentField(req, "text")}
      [] op = "POST /api/broadcast/game-comment/edit" ->
           {req.gameId, req.comment, CommentField(req, "id")}
      [] op = "POST /api/broadcast/game-comment/delete" ->
           {req.gameId, req.commentId}

(* C11, as stated: each HTTP broadcast endpoint answers 400 exactly when   *)
(* one of its required fields is missing from the body, and answers 200    *)
(* with a broadcast for every body in which they are all present,          *)
(* whatever their values.  Violated by a body whose gameId is 0: the       *)
(* field is present and the answer is 400.                                 *)
C11_Rejects400ExactlyWhenMissing ==
    out.op \in PostOps =>
       /\ out.res.status \in {200, 400}
       /\ out.res.status = 400 <=>
             \E v \in RequiredFields(out.op, out.req) : Missing(v)
       /\ out.res.status = 200 => Emitted

\* POST .../new with {gameId: 0, comment: {id: 456, text: "hi"}}, every
\* required field present, answered 400 and not broadcast
C11_Witness ==
    /\ out.op = "POST /api/broadcast/game-comment/new"
    /\ out.req = [gameId |-> Num(0), comment |-> Comment(Num(456), Str("hi"))]
    /\ out.res.status = 400
    /\ ~Emitted

\* the rooms of the index that hold socket c
RoomsOf(c) == {r \in DOMAIN rooms : c \in rooms[r]}

SocketOps ==
    {"joinRoom", "leaveRoom", "register", "message", "privateMessage",
     "broadcast_comment_new", "broadcast_players_updated"}

(* C13, as stated: every socket event handler completes without throwing   *)
(* whatever the payload, a missing one included, the process stays up,     *)
(* and a request that is rejected or malformed (the handler makes no       *)
(* broadcast) changes no membership and writes to no socket.  Violated by  *)
(* a relay event sent without a payload: the listener throws a TypeError   *)
(* that nobody catches.                                                    *)
C13_NothingIsFatal ==
    [][ /\ out'.op # "uncaughtException"
        /\ Running'
        /\ (out'.op \in SocketOps \ {"joinRoom", "leaveRoom", "register"}
               /\ out'.emit = NoEmit) =>
              /\ rooms' = rooms
              /\ connectedClients' = connectedClients
              /\ out'.sent = NoneSent ]_vars

\* a message event without a payload has been handled: the process is down,
\* the index and the registry are gone
C13_Witness ==
    /\ out.op = "uncaughtException"
    /\ out.req.event = "message"
    /\ ~Running
    /\ rooms = <<>>
    /\ connectedClients = <<>>
    /\ \A c \in Sids : socketState[c] = "down"

\* the event name of each comment function of the emitter module
EmitterEvent(o) ==
    CASE o.op = "emitNewComment" -> "game_comment_new"
      [] o.op = "emitEditComment" -> "game_comment_edit"
      [] o.op = "emitDeleteComment" -> "game_comment_delete"
      [] OTHER -> o.req.eventName

(* C14: while init(io) has not been called, each of the five emit          *)
(* functions of the emitter module and its getRoomSize returns 0, writes   *)
(* to no socket, changes nothing and leaves the process running; once      *)
(* init(io) has been called an emit function writes its event, once, to    *)
(* each member of its target channel and to nobody else and returns the    *)
(* number of members, and getRoomSize returns the number of members.       *)
C14_UninitialisedEmitterIsNoop ==
    [][ out'.op \in EmitterOps \cup {"getRoomSize"} =>
          /\ Running'
          /\ rooms' = rooms
          /\ connectedClients' = connectedClients
          /\ emitterIo' = emitterIo
          /\ ~emitterIo =>
                /\ out'.ret = 0
                /\ out'.emit = NoEmit
                /\ out'.sent = NoneSent
          /\ (emitterIo /\ out'.op \in EmitterOps) =>
                /\ out'.emit.room = TargetRoom(out')
                /\ out'.emit.name = EmitterEvent(out')
                /\ \A c \in Sids :
                      Len(out'.sent[c]) =
                         IF c \in Members(rooms, TargetRoom(out')) THEN 1 ELSE 0
                /\ out'.ret = Cardinality(Members(rooms, TargetRoom(out')))
          /\ (emitterIo /\ out'.op = "getRoomSize") =>
                /\ out'.ret = Cardinality(Members(rooms, out'.req.roomName))
                /\ out'.sent = NoneSent ]_vars

\* an emit function called before init(io) for a channel that has two
\* members: it returned 0 and wrote to nobody
C14_Witness ==
    /\ out.op \in EmitterOps
    /\ ~emitterIo
    /\ out.ret = 0
    /\ out.sent = NoneSent
    /\ Cardinality(Members(rooms, TargetRoom(out))) = 2

C16_NothingToUndo ==
    /\ \A c \in Live : \A r \in RoomNames :
          c \notin Members(rooms, r) => LeaveRoomState(Registry, c, r) = Registry
    /\ \A c \in Sids \ Live : DisconnectState(Registry, c) = Registry

\* a leaveRoom handled for a connection outside the channel changes nothing
C16_LeaveByNonMember ==
    (out'.op = "leaveRoom" /\ out'.from \notin Members(rooms, out'.req.room)) =>
       /\ rooms' = rooms
       /\ connectedClients' = connectedClients
       /\ out'.sent = NoneSent
       /\ Running'

(* C16: leaveRoom(r) from a connection that is not a member of r changes   *)
(* neither the member set of any channel nor the channel set of any        *)
(* connection nor the registry, writes to no socket and raises no error;   *)
(* the disconnect handler applied to a connection id that the registry     *)
(* does not hold changes nothing either.                                   *)
C16_NoopLeaveAndDisconnect == []C16_NothingToUndo /\ [][C16_LeaveByNonMember]_vars

\* a connection has left the same channel twice in a row, the second time as
\* a non-member, while the registry no longer holds another, closed, connection
C16_Witness ==
    /\ InARow("leaveRoom", "leaveRoom")
    /\ out.from \in Live
    /\ \E c \in Sids \ Live : socketState[c] = "closed"

\* what a register event and a delivery leave behind
C17_Registered ==
    /\ out.op = "register" =>
          LET c == out.from
              userRoom == "user_" \o TemplateStr(out.req.userId)
          IN  /\ connectedClients[c].userId = out.req.userId
              /\ c \in Members(rooms, userRoom)
              /\ userRoom \in connectedClients[c].rooms
    /\ Emitted =>
          \A c \in Live :
             out.emit.room \in lastJoined[c] =>
                out.sent[c] = <<Event(out.emit.name, out.emit.data)>>

\* register(a) then register(b), a # b, handled one after the other for one
\* connection
C17_RegisteredAgain ==
    (out.op = "register" /\ out'.op = "register" /\ out.from = out'.from
       /\ out.req.userId # out'.req.userId) =>
       LET c == out'.from
           a == "user_" \o TemplateStr(out.req.userId)
           b == "user_" \o TemplateStr(out'.req.userId)
       IN  /\ connectedClients'[c].userId = out'.req.userId
           /\ c \in Members(rooms', a) \cap Members(rooms', b)
           /\ {a, b} \subseteq connectedClients'[c].rooms

(* C17: after register(userId) from c the registry associates userId with  *)
(* c and c is a member of user_<userId>; after register(a) then            *)
(* register(b) from c, a # b, the association is b and c is a member of    *)
(* both user_<a> and user_<b>; and a delivery to user_<a> writes its       *)
(* event once to every connection that registered a and has not left       *)
(* user_<a>, whatever id it is associated with now.                        *)
C17_RegisterAddsChannel == []C17_Registered /\ [][C17_RegisteredAgain]_vars

\* a private message to user_8 reached a connection that registered 8 (the
\* only way into user_8) and, later, 7, the id it is associated with now
C17_Witness ==
    /\ out.op = "privateMessage"
    /\ out.emit.room = "user_8"
    /\ \E c \in Live :
          /\ connectedClients[c].userId = Num(7)
          /\ {"user_7", "user_8"} \subseteq connectedClients[c].rooms
          /\ out.sent[c] = <<Event("privateMessage", out.emit.data)>>

(* C18, as stated: once a register event has set the user id of a          *)
(* connection, no later event on that connection changes it.  Violated by  *)
(* a second register with another id: the handler assigns it.              *)
C18_UserIdAssignedOnce ==
    [][ \A c \in Live \cap DOMAIN connectedClients' :
           connectedClients[c].userId # UNDEF =>
              connectedClients'[c].userId = connectedClients[c].userId ]_vars

(* C18, amended: the user id of a connection is undefined from its connect *)
(* until its first register event and is changed by register events on     *)
(* that connection only; every register(u) sets it to u, also when it was  *)
(* set before.                                                             *)
C18_UserIdSetByEachRegister ==
    [][ /\ \A c \in Live \cap DOMAIN connectedClients' :
              connectedClients'[c].userId =
                 IF out'.op = "register" /\ out'.from = c
                 THEN out'.req.userId
                 ELSE connectedClients[c].userId
        /\ \A c \in DOMAIN connectedClients' \ Live :
              connectedClients'[c].userId = UNDEF ]_vars

\* register(7) has been handled for a connection that had registered 8 (the
\* only way into user_8): its user id is 7
C18_Witness ==
    /\ out.op = "register"
    /\ out.req.userId = Num(7)
    /\ "user_8" \in connectedClients[out.from].rooms
    /\ connectedClients[out.from].userId = Num(7)

\* the index holds a channel exactly when it has a member, and sizes agree
C19_NoEmptyChannel ==
    /\ \A r \in DOMAIN rooms : rooms[r] # {} /\ rooms[r] \subseteq Live
    /\ DOMAIN rooms \subseteq RoomNames
    /\ \A r \in RoomNames :
          /\ getRoomSize(r) >= 0
          /\ getRoomSize(r) = Cardinality(Members(rooms, r))
          /\ getRoomSize(r) = 0 <=> r \notin DOMAIN rooms
          /\ (LastJoiners(r) = {} /\ r \notin Live) => getRoomSize(r) = 0
    /\ out.op = "GET /api/room" =>
          (out.res.exists <=> out.req.roomName \in DOMAIN rooms)
    /\ out.op = "GET /health" =>
          out.res.rooms = Cardinality({r \in RoomNames : Members(rooms, r) # {}})

\* the room that a joinRoom, leaveRoom or register event names
EventRoom(o) ==
    IF o.op = "register" THEN "user_" \o TemplateStr(o.req.userId) ELSE o.req.room

\* a channel enters the index with its first member and goes with its last
C19_FirstInLastOut ==
    /\ DOMAIN rooms' \ DOMAIN rooms # {} =>
          /\ out'.op \in {"joinRoom", "register", "connection"}
          /\ \A r \in DOMAIN rooms' \ DOMAIN rooms : rooms'[r] = {out'.from}
    /\ (out'.op \in {"joinRoom", "register"}
           /\ EventRoom(out') \notin DOMAIN rooms) =>
          /\ EventRoom(out') \in DOMAIN rooms'
          /\ rooms'[EventRoom(out')] = {out'.from}
    /\ (out'.op = "leaveRoom" /\ Members(rooms, EventRoom(out')) = {out'.from}) =>
          EventRoom(out') \notin DOMAIN rooms'
    /\ out'.op = "disconnect" =>
          \A r \in DOMAIN rooms : rooms[r] = {out'.from} => r \notin DOMAIN rooms'
    /\ DOMAIN rooms \ DOMAIN rooms' # {} =>
          /\ out'.op \in {"leaveRoom", "disconnect"}
          /\ \A r \in DOMAIN rooms \ DOMAIN rooms' : rooms[r] = {out'.from}

C20_MessageNotGated ==
    out.op = "message" =>
       LET r == out.req.room
           packet == Event("message",
                           [room |-> r, message |-> out.req.message,
                            from |-> out.from])
       IN  /\ out.emit.room = r
           /\ \A c \in Sids :
                 out.sent[c] = IF c \in Members(rooms, r) THEN <<packet>> ELSE <<>>
           /\ Recipients = Members(rooms, r)

\* a message to a game channel from a connection that is not in it reached
\* the channel's member and not the sender
C20_Witness ==
    /\ out.op = "message"
    /\ out.req.room = "game_123"
    /\ out.from \in Live
    /\ out.from \notin Members(rooms, "game_123")
    /\ "game_123" \notin connectedClients[out.from].rooms
    /\ Cardinality(Recipients) = 1
    /\ out.sent[out.from] = <<>>

\* the live connections that the registry associates with the user id that
\* the channel name stands for
RegisteredAs(to) ==
    {c \in Live : /\ connectedClients[c].userId # UNDEF
                  /\ "user_" \o TemplateStr(connectedClients[c].userId) = to}

\* the packet a privateMessage event asks the server to deliver
PrivatePacket(o) == Event("privateMessage", [message |-> o.req.message, from |-> o.from])

(* C21, as stated: privateMessage({to, message}) writes one privateMessage *)
(* event to exactly the members of the channel named to, and a connection  *)
(* registered as user u receives it when to = user_<u>.  Violated by a     *)
(* connection that registered u and then left user_<u>: it is registered   *)
(* as u and gets nothing.                                                  *)
C21_PrivateReachesRegistered ==
    out.op = "privateMessage" =>
       /\ \A c \in Sids :
             out.sent[c] =
                IF c \in Members(rooms, out.req.to) THEN <<PrivatePacket(out)>> ELSE <<>>
       /\ \A c \in RegisteredAs(out.req.to) : out.sent[c] = <<PrivatePacket(out)>>

(* C21, amended: privateMessage({to, message}) writes one privateMessage   *)
(* event, {message, from: sender id}, to exactly the members of the        *)
(* channel whose name is to, taken verbatim; a connection registered as    *)
(* user u receives it when to = user_<u> for as long as it has not left    *)
(* user_<u>, and does not receive it once it has.                          *)
C21_PrivateReachesMembers ==
    out.op = "privateMessage" =>
       /\ out.emit.room = out.req.to
       /\ \A c \in Sids :
             out.sent[c] =
                IF c \in Members(rooms, out.req.to) THEN <<PrivatePacket(out)>> ELSE <<>>
       /\ \A c \in RegisteredAs(out.req.to) :
             /\ out.req.to \in lastJoined[c] => out.sent[c] = <<PrivatePacket(out)>>
             /\ out.req.to \notin lastJoined[c] => out.sent[c] = <<>>

\* a private message to user_7 while two connections are registered as 7:
\* the one still in user_7 got it, the one that left user_7 did not
C21_Witness ==
    /\ out.op = "privateMessage"
    /\ out.req.to = "user_7"
    /\ \E c, d \in RegisteredAs("user_7") :
          /\ c \in Members(rooms, "user_7")
          /\ d \notin Members(rooms, "user_7")
          /\ Len(out.sent[c]) = 1
          /\ out.sent[d] = <<>>

(* C22, as stated: broadcast_players_updated({gameId}) with a present      *)
(* gameId writes exactly one game_players_updated event with {gameId} to   *)
(* every member of game_<gameId> and to nobody else, whether the sender is *)
(* a member or not; with a missing gameId it writes nothing.  Violated by  *)
(* gameId 0 while game_0 has a member: the id is present and nothing is    *)
(* written.                                                                *)
C22_PlayersUpdatedDelivers ==
    out.op = "broadcast_players_updated" =>
       LET g == out.req.gameId
           packet == Event("game_players_updated", [gameId |-> g])
       IN  IF Missing(g)
           THEN out.sent = NoneSent
           ELSE \A c \in Sids :
                   out.sent[c] =
                      IF c \in Members(rooms, "game_" \o TemplateStr(g))
                      THEN <<packet>>
                      ELSE <<>>

\* broadcast_players_updated({gameId: 0}) while game_0 has a member: nothing
\* was written
C22_Witness ==
    /\ out.op = "broadcast_players_updated"
    /\ out.req.gameId = Num(0)
    /\ Members(rooms, "game_0") # {}
    /\ out.sent = NoneSent
    /\ ~Emitted

C24_RecordsAgree ==
    /\ \A c \in Live : \A r \in RoomNames :
          r \in connectedClients[c].rooms <=> c \in Members(rooms, r)
    /\ out.op = "broadcast_comment_new" =>
          (Emitted <=>
             out.from \in Members(rooms, "game_" \o TemplateStr(out.req.gameId)))

\* a connection that joinRoom(['game_123']) made a member of game_123 sent a
\* well-formed broadcast_comment_new for game 123, and nothing was written
C24_Witness ==
    /\ out.op = "broadcast_comment_new"
    /\ out.req = [gameId |-> Num(123), comment |-> Comment(Num(456), Str("hi"))]
    /\ out.from \in Members(rooms, "game_123")
    /\ "game_123" \notin connectedClients[out.from].rooms
    /\ ArrayKey(<<"game_123">>) \in connectedClients[out.from].rooms
    /\ out.sent = NoneSent

(* C25, as stated: when a member of game_<g> sends broadcast_comment_new   *)
(* with gameId g and a comment, both present, the handler writes exactly   *)
(* one game_comment_new event carrying the comment unchanged to every      *)
(* member of game_<g>, the sender included, and to nobody else, and        *)
(* changes no membership.  Violated by a member of game_0 sending gameId   *)
(* 0, and by a member that entered game_<g> through joinRoom with an array *)
(* argument: nothing is written.                                           *)
C25_MemberBroadcastDelivers ==
    [][ ( /\ out'.op = "broadcast_comment_new"
          /\ ~Missing(out'.req.gameId)
          /\ ~Missing(out'.req.comment)
          /\ out'.from \in Members(rooms, "game_" \o TemplateStr(out'.req.gameId)) )
        => ( /\ \A c \in Sids :
                   out'.sent[c] =
                      IF c \in Members(rooms, "game_" \o TemplateStr(out'.req.gameId))
                      THEN <<Event("game_comment_new", out'.req.comment)>>
                      ELSE <<>>
             /\ rooms' = rooms
             /\ connectedClients' = connectedClients ) ]_vars

\* a connection that joined game_0 with joinRoom('game_0') sent a comment
\* with gameId 0, and nothing was written
C25_Witness ==
    /\ out.op = "broadcast_comment_new"
    /\ out.req = [gameId |-> Num(0), comment |-> Comment(Num(456), Str("hi"))]
    /\ out.from \in Members(rooms, "game_0")
    /\ "game_0" \in connectedClients[out.from].rooms
    /\ out.sent = NoneSent

\* the sockets whose transport is connected
Connected == {c \in Sids : socketState[c] = "open"}

(* C26: between handlers the registry holds exactly one record, under its  *)
(* own id, for every connected socket and none for a socket that has       *)
(* disconnected or not yet connected; the clients count of GET /health is  *)
(* the number of connected sockets; and every member of every channel is   *)
(* in the registry.                                                        *)
C26_RegistryIsLiveConnections ==
    /\ DOMAIN connectedClients = Connected
    /\ \A c \in Live : connectedClients[c].id = c
    /\ \A r \in DOMAIN rooms : rooms[r] \subseteq DOMAIN connectedClients
    /\ out.op = "GET /health" =>
          /\ out.res.clients = Cardinality(Connected)
          /\ out.res.clients = Cardinality(DOMAIN connectedClients)

\* GET /health answers 1 client while one connection is live, in a channel it
\* joined, and another has disconnected from channels it had joined
C26_Witness ==
    /\ out.op = "GET /health"
    /\ out.res.clients = 1
    /\ \E c \in Live : lastJoined[c] # {}
    /\ \E d \in Sids : socketState[d] = "closed" /\ roomsAtClose[d] \cap RoomInputs # {}

BroadcastPathOps ==
    PostOps \cup EmitterOps
        \cup {"GET /api/room", "message", "privateMessage", "broadcast_comment_new",
              "broadcast_players_updated"}

C28_JoinConfirmsToJoinerOnly ==
    /\ out.op = "joinRoom" =>
          LET r == out.req.room
              confirmation ==
                 Event("message",
                       [room |-> r,
                        message |-> [type |-> "subscribed", status |-> "success",
                                     room |-> r]])
          IN  /\ out.sent[out.from] = <<confirmation>>
              /\ \A c \in Sids \ {out.from} : out.sent[c] = <<>>
              /\ out.emit = NoEmit
    /\ out.op \in {"leaveRoom", "register"} => out.sent = NoneSent

\* a connection has re-joined a channel that has another member: each of its
\* two joinRoom events was confirmed to it alone
C28_Witness ==
    /\ InARow("joinRoom", "joinRoom")
    /\ Len(out.sent[out.from]) = 1
    /\ Len(prev.sent[out.from]) = 1
    /\ \E c \in Members(rooms, out.req.room) \ {out.from} :
          out.sent[c] = <<>> /\ prev.sent[c] = <<>>

====
